---- MODULE Spec2Model ----
(***************************************************************************)
(* Model of tg2twi.py: a bridge that forwards the text posts of a Telegram *)
(* channel to Twitter.                                                     *)
(*                                                                         *)
(* A text is a sequence of characters, a character is a one-glyph string.  *)
(* Three specifications share the variables:                               *)
(*   SpecTransform  post_to_twitter applied to inputs drawn by Init        *)
(*   SpecPoll       polling_loop / get_updates_with_retry as defined       *)
(*   Spec           main(): the supervisory loop around run_polling        *)
(***************************************************************************)
EXTENDS Integers, Sequences, FiniteSets, TLC

VARIABLES
    TELEGRAM_CHANNEL_USERNAME, \* module global read from the environment
    arg_text,                  \* text argument of the last post_to_twitter call
    arg_post_id,               \* post_id argument of that call
    created,                   \* texts create_tweet was called with, in call order
    post_result,               \* how the last post_to_twitter call ended
    handled,                   \* one entry per finished handle_new_message call
    updates,                   \* updates fetched and not yet dispatched
    main_pc,                   \* where main() is
    poll_pc,                   \* where polling_loop is
    attempt_number,            \* attempt of the running get_updates_with_retry call
    fetches,                   \* bot.get_updates calls of that call, with their outcomes
    retry_result,              \* how the last get_updates_with_retry call ended
    fetch_via,                 \* the path of the last bot.get_updates call
    sleeping,                  \* length of the sleep in progress on the main thread, 0 if none
    health,                    \* state of the health check thread
    delays,                    \* backoff sleeps of the running get_updates_with_retry call
    delivered,                 \* number of updates the service has handed out
    app_bound,                 \* the local variable application of main() is assigned
    torn_down,                 \* application.stop_running() and stop() were called
    exit_code,                 \* exit status of the process, -1 while it runs
    last_exit,                 \* how main() last left the try body of its loop
    health_starts              \* number of health check threads started

transformVars == <<arg_text, arg_post_id, created, post_result>>
retryVars == <<poll_pc, attempt_number, fetches, retry_result, delays>>
lifeVars == <<app_bound, torn_down, exit_code, last_exit, health_starts>>

vars == <<TELEGRAM_CHANNEL_USERNAME, arg_text, arg_post_id, created, post_result,
          handled, updates, main_pc, poll_pc, attempt_number, fetches,
          retry_result, fetch_via, sleeping, health, delays, delivered,
          app_bound, torn_down, exit_code, last_exit, health_starts>>

----------------------------------------------------------------------------
(* Bounds of the inputs *)

MaxShort == 4       \* longest input text whose every character is drawn freely
MaxHead == 1        \* longest freely drawn head of a text that continues with filler
MaxFill == 262      \* longest run of filler characters after such a head
FillWindow == 7     \* the runs drawn are MaxFill-FillWindow .. MaxFill long
LongChannel == 262  \* longest channel name
ChannelWindow == 4  \* the long names drawn are LongChannel-ChannelWindow .. LongChannel long
ShortChannel == 2   \* the short names drawn are 1 .. ShortChannel long
MaxEvents == 2      \* updates the messaging service delivers in one run
MaxBatch == 2       \* longest list one bot.get_updates call returns

----------------------------------------------------------------------------
(* Characters and strings *)

MAX_TWEET_LENGTH == 280

Ellipsis == "U+2026"
NL == "\n"
Whitespace == {" ", NL}

DigitChar == <<"0", "1", "2", "3", "4", "5", "6", "7", "8", "9">>

LinkPrefix == <<"h", "t", "t", "p", "s", ":", "/", "/", "t", ".", "m", "e", "/">>

Rep(c, n) == [i \in 1..n |-> c]

\* str(n) for a non-negative integer: its decimal digits
RECURSIVE Str(_)
Str(n) ==
    IF n < 10 THEN <<DigitChar[n + 1]>>
    ELSE Str(n \div 10) \o <<DigitChar[(n % 10) + 1]>>

\* s.find(old, start): the first index >= start where old occurs in s, 0 if none
Find(s, old, start) ==
    LET last == Len(s) - Len(old) + 1
        Match(i) == \A k \in 1..Len(old) : s[i + k - 1] = old[k]
    IN  IF \E i \in start..last : Match(i)
        THEN CHOOSE i \in start..last :
                 Match(i) /\ \A j \in start..(i - 1) : ~Match(j)
        ELSE 0

\* s.replace(old, ""): one left-to-right pass over the non-overlapping occurrences
RECURSIVE ReplaceFrom(_, _, _)
ReplaceFrom(s, old, start) ==
    LET i == Find(s, old, start)
    IN  IF i = 0 THEN SubSeq(s, start, Len(s))
        ELSE SubSeq(s, start, i - 1) \o ReplaceFrom(s, old, i + Len(old))

Replace_first(s, old) ==
    LET i == Find(s, old, 1)
    IN  IF i = 0 THEN s
        ELSE SubSeq(s, 1, i - 1) \o SubSeq(s, i + Len(old), Len(s))

Replace(s, old) == ReplaceFrom(s, old, 1)

\* the places of the result of s.replace(old, "") where an occurrence was cut
\* out: c is in the set when a removal lies between result[c] and result[c+1]
RECURSIVE CutsFrom(_, _, _, _)
CutsFrom(s, old, start, outLen) ==
    LET i == Find(s, old, start)
    IN  IF i = 0 THEN {}
        ELSE {outLen + (i - start)}
               \cup CutsFrom(s, old, i + Len(old), outLen + (i - start))

Cuts(s, old) == CutsFrom(s, old, 1, 0)

\* number of leading / trailing whitespace characters of s
Leading(s) ==
    CHOOSE k \in 0..Len(s) :
        /\ \A j \in 1..k : s[j] \in Whitespace
        /\ (k = Len(s) \/ s[k + 1] \notin Whitespace)

Trailing(s) ==
    CHOOSE k \in 0..Len(s) :
        /\ \A j \in 1..k : s[Len(s) - j + 1] \in Whitespace
        /\ (k = Len(s) \/ s[Len(s) - k] \notin Whitespace)

\* s.strip()
Strip(s) ==
    IF Leading(s) = Len(s) THEN <<>>
    ELSE SubSeq(s, Leading(s) + 1, Len(s) - Trailing(s))

\* s[:n] of Python: a negative n counts from the end
SliceTo(s, n) ==
    IF n >= 0 THEN SubSeq(s, 1, IF n < Len(s) THEN n ELSE Len(s))
    ELSE SubSeq(s, 1, IF Len(s) + n > 0 THEN Len(s) + n ELSE 0)

----------------------------------------------------------------------------
(* post_to_twitter: the text transform *)

telegram_post_link(channel, post_id) ==
    LinkPrefix \o channel \o <<"/">> \o Str(post_id)

\* line 75
link_length_no_headroom(channel, post_id) ==
    Len(telegram_post_link(channel, post_id)) + 2

link_length(channel, post_id) == Len(telegram_post_link(channel, post_id)) + 5

allowed_text_length(channel, post_id) ==
    MAX_TWEET_LENGTH - link_length(channel, post_id)

MentionToken(channel) == <<"@">> \o channel

\* clean_text after line 79
clean_text(text, channel) == Strip(Replace(text, MentionToken(channel)))

\* line 82
TrimmedGuard_inclusive(clean, allowed) == Len(clean) >= allowed

TrimmedGuard(clean, allowed) == Len(clean) > allowed

\* lines 82-83
Trimmed_offbyone(clean, allowed) ==
    IF TrimmedGuard(clean, allowed)
    THEN SliceTo(clean, allowed) \o <<Ellipsis>>
    ELSE clean

Trimmed(clean, allowed) ==
    IF TrimmedGuard(clean, allowed)
    THEN SliceTo(clean, allowed - 1) \o <<Ellipsis>>
    ELSE clean

\* lines 74-86
tweet_text_cut_whole(text, post_id, channel) ==
    SliceTo(Trimmed(clean_text(text, channel), allowed_text_length(channel, post_id))
                \o <<NL, NL>> \o telegram_post_link(channel, post_id),
            MAX_TWEET_LENGTH)

tweet_text(text, post_id, channel) ==
    Trimmed(clean_text(text, channel), allowed_text_length(channel, post_id))
        \o <<NL, NL>> \o telegram_post_link(channel, post_id)

\* lines 71-92: the text is built and handed to create_tweet, whose failure
\* (api other than "ok") is logged and re-raised
post_to_twitter_retrying(text, post_id, api) ==
    /\ arg_text' = text
    /\ arg_post_id' = post_id
    /\ created' = created
                    \o <<tweet_text(text, post_id, TELEGRAM_CHANNEL_USERNAME)>>
                    \o (IF api = "ok" THEN <<>>
                        ELSE <<tweet_text(text, post_id, TELEGRAM_CHANNEL_USERNAME)>>)
    /\ post_result' = IF api = "ok" THEN "returned" ELSE "raised"

post_to_twitter(text, post_id, api) ==
    /\ arg_text' = text
    /\ arg_post_id' = post_id
    /\ created' = Append(created, tweet_text(text, post_id, TELEGRAM_CHANNEL_USERNAME))
    /\ post_result' = IF api = "ok" THEN "returned" ELSE "raised"

----------------------------------------------------------------------------
(* Exceptions *)

\* the classes that derive from Exception among those the program meets
ExceptionClasses == {"NetworkError", "Error", "RetryError"}

IsException(e) == e \in ExceptionClasses

\* what twitter_api.create_tweet does: it returns or raises
ApiOutcomes == {"ok", "Error"}

----------------------------------------------------------------------------
(* handle_new_message *)

\* the updates the service delivers: without channel_post, with a channel_post
\* whose text is None, with an empty text, and with a text
EventTexts == {<<"x">>, <<"@", "c", " ", "x">>}

Updates ==
    {[has_post |-> FALSE, has_text |-> FALSE, text |-> <<>>, message_id |-> 0],
     [has_post |-> TRUE, has_text |-> FALSE, text |-> <<>>, message_id |-> 7],
     [has_post |-> TRUE, has_text |-> TRUE, text |-> <<>>, message_id |-> 7]}
    \cup {[has_post |-> TRUE, has_text |-> TRUE, text |-> t, message_id |-> 42] :
             t \in EventTexts}

\* line 99: not update.channel_post or not update.channel_post.text
NoText_post_only(update) == ~update.has_post

NoText(update) ==
    \/ ~update.has_post
    \/ ~update.has_text
    \/ Len(update.text) = 0

\* line 107: except Exception
HandlerCatches_nothing(e) == FALSE

HandlerCatches(e) == IsException(e)

\* lines 96-108: the whole handler, create_tweet answering with api
handle_new_message(update, api) ==
    IF NoText(update)
    THEN /\ handled' = Append(handled,
                [update |-> update, called |-> FALSE, api |-> "none",
                 outcome |-> "returned"])
         /\ UNCHANGED transformVars
    ELSE /\ post_to_twitter(update.text, update.message_id, api)
         /\ handled' = Append(handled,
                [update |-> update, called |-> TRUE, api |-> api,
                 outcome |-> IF api = "ok" \/ HandlerCatches(api)
                             THEN "returned" ELSE "raised"])

----------------------------------------------------------------------------
(* get_updates_with_retry *)

stop_max_attempt == 5     \* stop_after_attempt(5)
wait_multiplier == 1      \* wait_exponential(multiplier=1, min=2, max=10)
wait_min == 2
wait_max == 10
COOLDOWN == 5             \* time.sleep(5)

\* stop_after_attempt(5)
stop_after_attempt_3(n) == n >= 3

stop_after_attempt(n) == n >= stop_max_attempt

\* retry_if_exception_type(NetworkError)
retry_if_any_exception(e) == IsException(e)

retry_if_exception_type(e) == e = "NetworkError"

\* wait_exponential: multiplier * 2^(attempt-1), kept within [min, max]
wait_exponential_no_min(n) ==
    LET result == wait_multiplier * (2 ^ (n - 1))
    IN  IF result < wait_max THEN result ELSE wait_max

wait_exponential(n) ==
    LET result == wait_multiplier * (2 ^ (n - 1))
        capped == IF result < wait_max THEN result ELSE wait_max
    IN  IF capped > wait_min THEN capped ELSE wait_min

NoResult == [kind |-> "none", exc |-> "none", value |-> <<>>]
Returned(v) == [kind |-> "returned", exc |-> "none", value |-> v]
Raised(e) == [kind |-> "raised", exc |-> e, value |-> <<>>]

Batches == UNION {[1..k -> Updates] : k \in 0..MaxBatch}

\* what one bot.get_updates call does: it returns a list or raises
FetchOutcomes ==
    {[out |-> "ok", value |-> b] : b \in Batches}
        \cup {[out |-> e, value |-> <<>>] : e \in {"NetworkError", "Error"}}

\* the service delivers MaxEvents updates at most
Deliverable(b) == delivered + Len(b) <= MaxEvents

\* the service numbers the updates it hands out: update_id grows by one
Tag(u, id) ==
    [has_post |-> u.has_post, has_text |-> u.has_text, text |-> u.text,
     message_id |-> u.message_id, update_id |-> id]

Tagged(b, base) == [k \in 1..Len(b) |-> Tag(b[k], base + k)]

\* the update dispatched next: the oldest one waiting
NextUpdate_newest(q) == q[Len(q)]

NextUpdate(q) == Head(q)

\* how the attempt that got outcome f ends the call, "retry" when it does not
AttemptEnd(f, n) ==
    IF f.out = "ok" THEN Returned(f.value)
    ELSE IF ~retry_if_exception_type(f.out) THEN Raised(f.out)
    ELSE IF stop_after_attempt(n) THEN Raised("RetryError")
    ELSE [kind |-> "retry", exc |-> f.out, value |-> <<>>]

----------------------------------------------------------------------------
(* polling_loop, lines 140-148 *)

\* line 146: except Exception
PollingLoopCatches_network_only(e) == e = "NetworkError"

PollingLoopCatches(e) == IsException(e)

\* line 143: one attempt of get_updates_with_retry inside polling_loop
Attempt ==
    /\ main_pc = "running"
    /\ poll_pc = "attempt"
    /\ \E g \in FetchOutcomes :
        /\ Deliverable(g.value)
        /\ LET f == [out |-> g.out, value |-> Tagged(g.value, delivered)]
               end == AttemptEnd(f, attempt_number)
           IN  /\ fetches' = Append(fetches, f)
               /\ delivered' = delivered + Len(f.value)
               /\ CASE end.kind = "returned" ->
                        /\ retry_result' = end
                        /\ updates' = end.value
                        /\ poll_pc' = "process"
                        /\ UNCHANGED <<main_pc, sleeping, delays, last_exit>>
                 [] end.kind = "retry" ->
                        /\ poll_pc' = "backoff"
                        /\ sleeping' = wait_exponential(attempt_number)
                        /\ delays' = Append(delays, wait_exponential(attempt_number))
                        /\ UNCHANGED <<retry_result, updates, main_pc, last_exit>>
                 [] end.kind = "raised" /\ PollingLoopCatches(end.exc) ->
                        /\ retry_result' = end
                        /\ poll_pc' = "absorbed"
                        /\ sleeping' = COOLDOWN
                        /\ UNCHANGED <<updates, main_pc, delays, last_exit>>
                 [] end.kind = "raised" /\ ~PollingLoopCatches(end.exc) ->
                        /\ retry_result' = end
                        /\ poll_pc' = "idle"
                        /\ main_pc' = "cooling_down"
                        /\ sleeping' = COOLDOWN
                        /\ last_exit' = "exception"
                        /\ UNCHANGED <<updates, delays>>
    /\ fetch_via' = "get_updates_with_retry"
    /\ UNCHANGED <<TELEGRAM_CHANNEL_USERNAME, transformVars, handled,
                   attempt_number, health, app_bound, torn_down, exit_code,
                   health_starts>>

\* the backoff sleep of the retry wrapper ends and the next attempt starts
BackoffDone ==
    /\ poll_pc = "backoff"
    /\ poll_pc' = "attempt"
    /\ attempt_number' = attempt_number + 1
    /\ sleeping' = 0
    /\ UNCHANGED <<TELEGRAM_CHANNEL_USERNAME, transformVars, handled, updates,
                   main_pc, fetches, retry_result, fetch_via, health, delays,
                   delivered, lifeVars>>

\* lines 144-145: the next update of the list goes to the handler
ProcessUpdate ==
    /\ poll_pc = "process"
    /\ updates # <<>>
    /\ \E api \in ApiOutcomes : handle_new_message(NextUpdate(updates), api)
    /\ updates' = Tail(updates)
    /\ UNCHANGED <<TELEGRAM_CHANNEL_USERNAME, main_pc, retryVars, fetch_via,
                   sleeping, health,
                   delivered, lifeVars>>

\* line 141: the list is done, the loop calls get_updates_with_retry again
NextIteration ==
    /\ poll_pc = "process"
    /\ updates = <<>>
    /\ poll_pc' = "attempt"
    /\ attempt_number' = 1
    /\ fetches' = <<>>
    /\ retry_result' = NoResult
    /\ delays' = <<>>
    /\ UNCHANGED <<TELEGRAM_CHANNEL_USERNAME, transformVars, handled, updates,
                   main_pc, fetch_via, sleeping, health,
                   delivered, lifeVars>>

\* line 148: the sleep after a caught failure ends, the loop goes on
AbsorbedDone ==
    /\ poll_pc = "absorbed"
    /\ poll_pc' = "attempt"
    /\ attempt_number' = 1
    /\ fetches' = <<>>
    /\ retry_result' = NoResult
    /\ delays' = <<>>
    /\ sleeping' = 0
    /\ UNCHANGED <<TELEGRAM_CHANNEL_USERNAME, transformVars, handled, updates,
                   main_pc, fetch_via, health,
                   delivered, lifeVars>>

----------------------------------------------------------------------------
(* main *)

\* what building the application (lines 132-137) does
BuildOutcomes == {"ok", "Error"}

\* line 154: except Exception
MainCatches(e) == IsException(e)

\* lines 154-157: the except Exception clause of main logs and sleeps
main_except ==
    /\ main_pc' = "cooling_down"
    /\ sleeping' = COOLDOWN
    /\ last_exit' = "exception"

\* lines 126-127: the health check thread is started, main enters its loop
StartHealthThread ==
    /\ main_pc = "start"
    /\ main_pc' = "building"
    /\ health' = "started"
    /\ health_starts' = health_starts + 1
    /\ UNCHANGED <<TELEGRAM_CHANNEL_USERNAME, transformVars, handled, updates,
                   retryVars, fetch_via, sleeping, delivered, app_bound,
                   torn_down, exit_code, last_exit>>

\* lines 63-67: serve_forever ends with an error, which is logged; the thread ends
health_check_exits ==
    /\ health = "serving"
    /\ health' = "exited"
    /\ UNCHANGED <<TELEGRAM_CHANNEL_USERNAME, transformVars, handled, updates,
                   main_pc, retryVars, fetch_via, sleeping, delivered, lifeVars>>

\* lines 45-67: the server binds its port and serves, or fails and the thread ends
start_health_check ==
    /\ health = "started"
    /\ \E bound \in BOOLEAN : health' = IF bound THEN "serving" ELSE "exited"
    /\ UNCHANGED <<TELEGRAM_CHANNEL_USERNAME, transformVars, handled, updates,
                   main_pc, retryVars, fetch_via, sleeping,
                   delivered, lifeVars>>

\* lines 132-137 and, when they raise, 154-157
Build ==
    /\ main_pc = "building"
    /\ \E b \in BuildOutcomes, assigned \in BOOLEAN :
        IF b = "ok"
        THEN /\ main_pc' = "running"
             /\ app_bound' = TRUE
             /\ UNCHANGED <<sleeping, last_exit>>
        ELSE /\ MainCatches(b)
             /\ main_except
             /\ app_bound' = (app_bound \/ assigned)
    /\ updates' = <<>>
    /\ UNCHANGED <<TELEGRAM_CHANNEL_USERNAME, transformVars, handled, retryVars,
                   fetch_via, health, delivered, torn_down, exit_code,
                   health_starts>>

\* line 151: run_polling fetches with the library's own bot.get_updates call
RunPollingFetch ==
    /\ main_pc = "running"
    /\ poll_pc = "idle"
    /\ \E b \in Batches :
        /\ Deliverable(b)
        /\ updates' = updates \o Tagged(b, delivered)
        /\ delivered' = delivered + Len(b)
    /\ fetch_via' = "run_polling"
    /\ UNCHANGED <<TELEGRAM_CHANNEL_USERNAME, transformVars, handled, main_pc,
                   retryVars, sleeping, health, lifeVars>>

\* line 151: run_polling hands the next update to the registered handler
RunPollingDispatch ==
    /\ main_pc = "running"
    /\ poll_pc = "idle"
    /\ updates # <<>>
    /\ \E api \in ApiOutcomes : handle_new_message(NextUpdate(updates), api)
    /\ updates' = Tail(updates)
    /\ UNCHANGED <<TELEGRAM_CHANNEL_USERNAME, main_pc, retryVars, fetch_via,
                   sleeping, health,
                   delivered, lifeVars>>

\* lines 151, 154-157: an exception leaves run_polling
RunPollingRaises ==
    /\ main_pc = "running"
    /\ poll_pc = "idle"
    /\ \E e \in {"NetworkError", "Error"} : MainCatches(e)
    /\ main_except
    /\ UNCHANGED <<TELEGRAM_CHANNEL_USERNAME, transformVars, handled, updates,
                   retryVars, fetch_via, health, delivered, app_bound,
                   torn_down, exit_code, health_starts>>

\* lines 151, 130: run_polling returns, the while loop starts over
RunPollingReturns ==
    /\ main_pc = "running"
    /\ poll_pc = "idle"
    /\ main_pc' = "building"
    /\ last_exit' = "returned"
    /\ UNCHANGED <<TELEGRAM_CHANNEL_USERNAME, transformVars, handled, updates,
                   retryVars, fetch_via, sleeping, health, delivered,
                   app_bound, torn_down, exit_code, health_starts>>

\* line 157: the sleep ends, the while loop starts over
CoolDownDone_restarting_health ==
    /\ main_pc = "cooling_down"
    /\ main_pc' = "building"
    /\ sleeping' = 0
    /\ last_exit' = "cooled"
    /\ health' = "started"
    /\ health_starts' = health_starts + 1
    /\ UNCHANGED <<TELEGRAM_CHANNEL_USERNAME, transformVars, handled, updates,
                   retryVars, fetch_via, delivered, app_bound, torn_down,
                   exit_code>>

CoolDownDone ==
    /\ main_pc = "cooling_down"
    /\ main_pc' = "building"
    /\ sleeping' = 0
    /\ last_exit' = "cooled"
    /\ UNCHANGED <<TELEGRAM_CHANNEL_USERNAME, transformVars, handled, updates,
                   retryVars, fetch_via, health, delivered, app_bound,
                   torn_down, exit_code, health_starts>>

\* exit status of a process ended by a KeyboardInterrupt nothing caught:
\* 1, or 130 where the interpreter ends itself with SIGINT
UnhandledInterruptCodes == {1, 130}

\* the daemon thread ends with the process
HealthAtExit(h) == IF h \in {"started", "serving"} THEN "killed" ELSE h

\* lines 159-163: a KeyboardInterrupt raised in the try body is handled by
\* stopping the application and sys.exit(1); the name application is unbound
\* when line 133 has never completed, and then line 160 raises instead.
\* line 157: raised during the sleep of the except Exception clause, the
\* KeyboardInterrupt is outside the try body and leaves main()
KeyboardInterrupt ==
    /\ main_pc \in {"building", "running", "cooling_down"}
    /\ poll_pc = "idle"
    /\ \E assigned \in BOOLEAN, code \in UnhandledInterruptCodes :
        CASE main_pc = "cooling_down" ->
                 /\ main_pc' = "crashed"
                 /\ exit_code' = code
                 /\ UNCHANGED <<torn_down, app_bound>>
          [] main_pc = "running"
               \/ (main_pc = "building" /\ (app_bound \/ assigned)) ->
                 /\ main_pc' = "stopped"
                 /\ torn_down' = TRUE
                 /\ exit_code' = 1
                 /\ app_bound' = TRUE
          [] main_pc = "building" /\ ~(app_bound \/ assigned) ->
                 /\ main_pc' = "crashed"
                 /\ exit_code' = 1
                 /\ UNCHANGED <<torn_down, app_bound>>
    /\ health' = HealthAtExit(health)
    /\ sleeping' = 0
    /\ UNCHANGED <<TELEGRAM_CHANNEL_USERNAME, transformVars, handled, updates,
                   retryVars, fetch_via, delivered, last_exit, health_starts>>

\* nothing fetched, dispatched or retried yet
IdleDispatch ==
    /\ handled = <<>>
    /\ updates = <<>>
    /\ main_pc = "start"
    /\ poll_pc = "idle"
    /\ attempt_number = 0
    /\ fetches = <<>>
    /\ retry_result = NoResult
    /\ fetch_via = "none"
    /\ sleeping = 0
    /\ health = "not_started"
    /\ delays = <<>>
    /\ delivered = 0
    /\ app_bound = FALSE
    /\ torn_down = FALSE
    /\ exit_code = -1
    /\ last_exit = "none"
    /\ health_starts = 0

ShortChannelNames == {[i \in 1..n |-> "c"] : n \in 1..ShortChannel}

Init ==
    /\ TELEGRAM_CHANNEL_USERNAME \in ShortChannelNames
    /\ arg_text = <<>>
    /\ arg_post_id = 0
    /\ created = <<>>
    /\ post_result = "none"
    /\ IdleDispatch

Next ==
    \/ StartHealthThread
    \/ start_health_check
    \/ health_check_exits
    \/ KeyboardInterrupt
    \/ Build
    \/ RunPollingFetch
    \/ RunPollingDispatch
    \/ RunPollingRaises
    \/ RunPollingReturns
    \/ CoolDownDone

Spec == Init /\ [][Next]_vars

----------------------------------------------------------------------------
(* SpecPoll: polling_loop running in place of run_polling *)

InitPoll ==
    /\ TELEGRAM_CHANNEL_USERNAME \in ShortChannelNames
    /\ arg_text = <<>>
    /\ arg_post_id = 0
    /\ created = <<>>
    /\ post_result = "none"
    /\ handled = <<>>
    /\ updates = <<>>
    /\ main_pc = "running"
    /\ poll_pc = "attempt"
    /\ attempt_number = 1
    /\ fetches = <<>>
    /\ retry_result = NoResult
    /\ fetch_via = "none"
    /\ sleeping = 0
    /\ health = "serving"
    /\ delays = <<>>
    /\ delivered = 0
    /\ app_bound = TRUE
    /\ torn_down = FALSE
    /\ exit_code = -1
    /\ last_exit = "none"
    /\ health_starts = 1

NextPoll ==
    \/ Attempt
    \/ BackoffDone
    \/ ProcessUpdate
    \/ NextIteration
    \/ AbsorbedDone

SpecPoll == InitPoll /\ [][NextPoll]_vars

----------------------------------------------------------------------------
(* SpecTransform: one call of post_to_twitter on inputs drawn by Init *)

Chars == {"@", "c", "x", " "}

SeqsUpTo(S, n) == UNION {[1..k -> S] : k \in 0..n}

ShortTexts == SeqsUpTo(Chars, MaxShort)

FilledTexts ==
    {h \o Rep("x", f) : h \in SeqsUpTo(Chars, MaxHead),
                        f \in (MaxFill - FillWindow)..MaxFill}

Texts == ShortTexts \cup FilledTexts

ChannelNames ==
    {Rep("c", n) : n \in (1..ShortChannel) \cup ((LongChannel - ChannelWindow)..LongChannel)}

PostIds == {7, 42}

InitTransform ==
    /\ TELEGRAM_CHANNEL_USERNAME \in ChannelNames
    /\ arg_text \in Texts
    /\ arg_post_id \in PostIds
    /\ created = <<>>
    /\ post_result = "none"
    /\ IdleDispatch

PostToTwitterCall ==
    /\ post_result = "none"
    /\ \E api \in ApiOutcomes : post_to_twitter(arg_text, arg_post_id, api)
    /\ UNCHANGED <<TELEGRAM_CHANNEL_USERNAME, handled, updates, main_pc, retryVars,
                   fetch_via, sleeping, health,
                   delivered, lifeVars>>

NextTransform == PostToTwitterCall

SpecTransform == InitTransform /\ [][NextTransform]_vars

\* the inputs and intermediate values of the call under study
TheLink == telegram_post_link(TELEGRAM_CHANNEL_USERNAME, arg_post_id)
TheAllowed == allowed_text_length(TELEGRAM_CHANNEL_USERNAME, arg_post_id)
TheToken == MentionToken(TELEGRAM_CHANNEL_USERNAME)
TheClean == clean_text(arg_text, TELEGRAM_CHANNEL_USERNAME)
Called == post_result # "none" /\ Len(created) = 1
\* the part of the outbound text before the two newlines and the link
TheBody == SubSeq(created[1], 1, Len(created[1]) - Len(TheLink) - 2)

\* C1: every text handed to create_tweet is at most MAX_TWEET_LENGTH long
C1_LengthBound ==
    \A i \in DOMAIN created : Len(created[i]) <= MAX_TWEET_LENGTH

\* C2 as stated: whenever the cleaned text is longer than allowed_text_length,
\* the body is exactly allowed_text_length long and ends with the ellipsis,
\* whatever the value of allowed_text_length
C2_Original ==
    (Called /\ Len(TheClean) > TheAllowed)
        => /\ Len(TheBody) = TheAllowed
           /\ Len(TheBody) > 0
           /\ TheBody[Len(TheBody)] = Ellipsis

\* C2 amended: whenever allowed_text_length is at least 1 and the cleaned text
\* is longer than it, the body is exactly allowed_text_length long and ends
\* with the ellipsis
C2_TruncatedBody ==
    (Called /\ TheAllowed >= 1 /\ Len(TheClean) > TheAllowed)
        => /\ Len(TheBody) = TheAllowed
           /\ TheBody[Len(TheBody)] = Ellipsis

C2_Witness ==
    /\ Called
    /\ TheAllowed >= 1
    /\ Len(TheClean) > TheAllowed
    /\ Len(TheBody) = TheAllowed

\* C3: whenever the cleaned text is no longer than allowed_text_length, the
\* body of the outbound text is the cleaned text, uncut and without ellipsis
C3_VerbatimBody ==
    (Called /\ Len(TheClean) <= TheAllowed) => TheBody = TheClean

C3_Witness ==
    /\ Called
    /\ Len(TheClean) = TheAllowed
    /\ TheAllowed > 0
    /\ TheBody = TheClean

\* the indexes at which old occurs in s
Occurrences(s, old) ==
    {i \in 1..(Len(s) - Len(old) + 1) : \A k \in 1..Len(old) : s[i + k - 1] = old[k]}

\* C4 as stated: the cleaned text contains no occurrence of the mention token
C4_Original ==
    Called => Occurrences(TheClean, TheToken) = {}

\* C4 amended: every occurrence of the mention token in the raw text that a
\* left-to-right pass finds is removed, so the cleaned text contains the
\* token only across a place where a removed occurrence joined its neighbours
C4_OnlyJoinedOccurrences ==
    Called =>
        LET lead == Leading(Replace(arg_text, TheToken))
        IN  \A p \in Occurrences(TheClean, TheToken) :
                \E c \in Cuts(arg_text, TheToken) :
                    p + lead <= c /\ c < p + lead + Len(TheToken) - 1

C4_Witness ==
    /\ Called
    /\ Occurrences(arg_text, TheToken) # {}
    /\ Occurrences(TheClean, TheToken) # {}
    /\ Len(TheClean) < Len(arg_text)

----------------------------------------------------------------------------
(* Claims about handle_new_message, checked under Spec *)

HasText(update) == update.has_post /\ update.has_text /\ Len(update.text) > 0

\* C5: handle_new_message never lets an exception out: every call returns
\* normally, also when create_tweet failed, and main keeps running
C5_HandlerReturns ==
    /\ \A i \in DOMAIN handled : handled[i].outcome = "returned"
    /\ (handled # <<>> /\ handled[Len(handled)].api = "Error")
          => post_result = "raised" /\ main_pc # "start"

C5_Witness ==
    /\ Len(handled) >= 2
    /\ handled[1].called /\ handled[1].api = "Error"
    /\ handled[1].outcome = "returned"
    /\ handled[2].called /\ handled[2].api = "ok"

\* C6: an event without channel post or without (non-empty) text makes no
\* create_tweet call and the handler returns; create_tweet is called only
\* for the events that carry a text
C6_NoTextNoPublish ==
    /\ \A i \in DOMAIN handled :
          /\ handled[i].called <=> HasText(handled[i].update)
          /\ ~handled[i].called => handled[i].outcome = "returned"
    /\ Len(created) = Cardinality({i \in DOMAIN handled : HasText(handled[i].update)})

C6_Witness ==
    /\ \E i \in DOMAIN handled :
          /\ handled[i].update.has_post
          /\ ~HasText(handled[i].update)
          /\ ~handled[i].called
    /\ \E j \in DOMAIN handled : handled[j].called
    /\ Len(created) = 1

----------------------------------------------------------------------------
(* Claims about get_updates_with_retry and polling_loop, checked under SpecPoll *)

\* the first n fetches of the running call all raised NetworkError
AllNetworkErrors(n) == \A i \in 1..n : fetches[i].out = "NetworkError"

\* C7: one call makes at most 5 fetches, makes another one only after a
\* NetworkError, and any other error ends the call at the attempt that raised it
C7_BoundedRetry ==
    /\ Len(fetches) <= 5
    /\ AllNetworkErrors(Len(fetches) - 1)
    /\ \A i \in DOMAIN fetches :
          fetches[i].out = "Error"
              => i = Len(fetches) /\ retry_result = Raised("Error")

C7_Witness ==
    /\ Len(fetches) = 5
    /\ AllNetworkErrors(5)
    /\ retry_result.kind = "raised"

\* C8: after k <= 4 NetworkErrors in a row the call is still going, and when
\* the next fetch succeeds the call has made k+1 fetches, returns the list
\* of that fetch and raises nothing
C8_SuccessAfterFailures ==
    /\ (Len(fetches) \in 1..4 /\ AllNetworkErrors(Len(fetches)))
          => retry_result = NoResult /\ poll_pc \in {"backoff", "attempt"}
    /\ (fetches # <<>> /\ fetches[Len(fetches)].out = "ok")
          => /\ Len(fetches) <= 5
             /\ AllNetworkErrors(Len(fetches) - 1)
             /\ retry_result = Returned(fetches[Len(fetches)].value)
             /\ poll_pc = "process"
             /\ main_pc = "running"

C8_Witness ==
    /\ Len(fetches) = 4
    /\ AllNetworkErrors(3)
    /\ fetches[4].out = "ok"
    /\ fetches[4].value # <<>>
    /\ retry_result = Returned(fetches[4].value)

----------------------------------------------------------------------------
(* Claims about main, checked under Spec *)

\* C10: while main is running, updates are fetched only through
\* get_updates_with_retry
C10_Original ==
    main_pc = "running" => fetch_via \in {"none", "get_updates_with_retry"}

----------------------------------------------------------------------------
(* Claims about the shape and length of the outbound text, checked under SpecTransform *)

\* s is the first Len(s) characters of t
IsPrefix(s, t) == Len(s) <= Len(t) /\ SubSeq(t, 1, Len(s)) = s

\* C16: the text handed to create_tweet is a body, two newlines and the whole
\* link https://t.me/<channel_name>/<post_id>; the body is the cleaned text
\* or a prefix of it followed by the ellipsis, so only the body is ever cut
C16_BodyNewlinesLink ==
    Called =>
        LET t == created[1]
            link == LinkPrefix \o TELEGRAM_CHANNEL_USERNAME \o <<"/">> \o Str(arg_post_id)
            n == Len(t) - Len(link) - 2
        IN  /\ n >= 0
            /\ SubSeq(t, n + 1, Len(t)) = <<NL, NL>> \o link
            /\ \/ SubSeq(t, 1, n) = TheClean
               \/ /\ n >= 1
                  /\ t[n] = Ellipsis
                  /\ IsPrefix(SubSeq(t, 1, n - 1), TheClean)

C16_Witness ==
    /\ Called
    /\ Len(TheClean) > TheAllowed
    /\ Len(created[1]) > MAX_TWEET_LENGTH
    /\ SubSeq(created[1], Len(created[1]) - Len(TheLink) + 1, Len(created[1])) = TheLink

\* C17 as stated: when allowed_text_length >= 1 the outbound text is at most
\* 277 long, and it is 277 long exactly when the body was truncated
C17_Original ==
    (Called /\ TheAllowed >= 1)
        => /\ Len(created[1]) <= MAX_TWEET_LENGTH - 3
           /\ Len(created[1]) = MAX_TWEET_LENGTH - 3 <=> Len(TheClean) > TheAllowed

\* C17 amended: when allowed_text_length >= 1 the outbound text is at most
\* 277 long, and it is 277 long exactly when the cleaned text is at least
\* allowed_text_length long: truncated, or exactly filling the budget
C17_LengthAtMost277 ==
    (Called /\ TheAllowed >= 1)
        => /\ Len(created[1]) <= 277
           /\ Len(created[1]) = 277 <=> Len(TheClean) >= TheAllowed

C17_Witness ==
    /\ Called
    /\ TheAllowed >= 1
    /\ Len(TheClean) = TheAllowed
    /\ TheBody = TheClean
    /\ Len(created[1]) = 277

----------------------------------------------------------------------------
(* Claims about the backoff of get_updates_with_retry, checked under SpecPoll *)

----------------------------------------------------------------------------
(* Claims about publishing and its order, checked under Spec *)

\* the number of events with a text among the first i handled ones
TextRank(i) == Cardinality({j \in 1..i : HasText(handled[j].update)})

\* C11: every event with a text leads to exactly one create_tweet call; when
\* the call raises, post_to_twitter re-raises, the handler catches it and
\* returns, and nothing is published a second time
C11_PublishedOnce ==
    /\ Len(created) = TextRank(Len(handled))
    /\ \A i \in DOMAIN handled :
          HasText(handled[i].update)
              => /\ handled[i].called
                 /\ handled[i].api \in {"ok", "Error"}
                 /\ handled[i].outcome = "returned"
    /\ (handled # <<>> /\ handled[Len(handled)].api = "Error")
          => post_result = "raised"

C11_Witness ==
    /\ Len(handled) = 2
    /\ HasText(handled[1].update) /\ handled[1].api = "Error"
    /\ HasText(handled[2].update) /\ handled[2].api = "ok"
    /\ Len(created) = 2
    /\ post_result = "returned"

\* C14: events are handled one at a time in the order of their delivery:
\* the handled ones are older than all that wait, in growing update_id, and
\* the create_tweet calls are in the order of the text events
C14_DeliveryOrder ==
    /\ \A i, j \in DOMAIN handled :
          i < j => handled[i].update.update_id < handled[j].update.update_id
    /\ \A i \in DOMAIN handled : \A k \in DOMAIN updates :
          handled[i].update.update_id < updates[k].update_id
    /\ \A k, l \in DOMAIN updates :
          k < l => updates[k].update_id < updates[l].update_id
    /\ \A i \in DOMAIN handled :
          HasText(handled[i].update)
              => /\ TextRank(i) <= Len(created)
                 /\ created[TextRank(i)] =
                        tweet_text(handled[i].update.text,
                                   handled[i].update.message_id,
                                   TELEGRAM_CHANNEL_USERNAME)

C14_Witness ==
    /\ Len(handled) = 2
    /\ handled[1].update.update_id = 1
    /\ handled[2].update.update_id = 2
    /\ handled[1].called /\ handled[2].called
    /\ handled[1].update.text # handled[2].update.text
    /\ created[1] # created[2]

----------------------------------------------------------------------------
(* Claims about the supervisory loop and the health check thread, checked under Spec *)

\* C12: the loop goes BUILDING, RUNNING, COOLING_DOWN, BUILDING: whenever it
\* is about to build again after a run or a failed build, the 5-unit
\* cooldown has taken place since
C12_Original ==
    /\ main_pc = "building" => last_exit \in {"none", "cooled"}
    /\ main_pc = "cooling_down" => sleeping = COOLDOWN /\ last_exit = "exception"

\* C13: the process ends only in STOPPED, reached by an interrupt in any
\* state, with the client torn down and exit code 1
C13_Original ==
    /\ main_pc # "crashed"
    /\ exit_code # -1 => main_pc = "stopped" /\ torn_down /\ exit_code = 1

\* the state of main() and of the dispatcher
dispatchVars ==
    <<TELEGRAM_CHANNEL_USERNAME, transformVars, handled, updates, main_pc,
      retryVars, fetch_via, sleeping, delivered, app_bound, torn_down,
      exit_code, last_exit>>

\* C15: a step of the health check thread, its failure to start and its end
\* included, changes nothing of main() and the dispatcher; no failure or
\* restart of the dispatch subsystem changes the state of the thread; the
\* thread is started once
C15_Decoupled ==
    [][/\ (health # "not_started" /\ health' # health /\ exit_code' = -1)
            => UNCHANGED dispatchVars
       /\ (main_pc # "start" /\ exit_code' = -1 /\ dispatchVars' # dispatchVars)
            => health' = health
       /\ health_starts' = (IF main_pc' = "start" THEN 0 ELSE 1)
       /\ health' = "started" => health = "not_started" \/ health = "started"]_vars

C15_Witness ==
    /\ health = "exited"
    /\ health_starts = 1
    /\ last_exit = "cooled"
    /\ main_pc = "running"
    /\ handled # <<>>

====
